---- MODULE Spec2Model ----
(***************************************************************************)
(* A model of the test-stub pipeline of tools/: FileScanner (scanner.py),  *)
(* CodeClassifier (classifier.py), TestChecker (checker.py), TestGenerator *)
(* (generator.py) and main (main.py), and of find_source_dir               *)
(* (coverage_runner.py) and VSCodeLauncher (vscode_integration.py).        *)
(*                                                                         *)
(* File names are sequences of one-character strings, a directory is the   *)
(* sequence of the names leading to it, and a file system is a set of      *)
(* entries [dir, name, isDir].                                             *)
(***************************************************************************)
EXTENDS Integers, Sequences, FiniteSets, TLC

VARIABLES
    fs,             \* the entries of the file system, relative to the root directory
    root,           \* scanner: the parts of FileScanner.root, as it was passed
    extensions,     \* scanner: FileScanner.extensions
    exclude_dirs,   \* scanner: FileScanner.exclude_dirs
    pending,        \* scanner: the entries root.rglob("*") has not produced yet
    yielded,        \* scanner: the paths scan has yielded, in the order of the walk
    paths,          \* classifier: the argument of classify, each path with what the
                    \*   file system answers for it (is_file, stat, read_text)
    min_bytes,      \* classifier: CodeClassifier.min_bytes
    min_loc,        \* classifier: CodeClassifier.min_loc
    cl_extensions,  \* classifier: CodeClassifier.extensions
    metas,          \* classifier: the list classify builds and returns
    cidx,           \* classifier: position of classify's loop in paths
    content,        \* classifier: the local `content` of classify
    loc,            \* classifier: the local `loc` of classify
    io_log,         \* classifier: the file-system calls made so far, <<call, position>>
    cl_pc,          \* classifier: the statement of classify's loop body to run next
    test_dir_name,  \* checker: TestChecker.tests_root = project_root / test_dir_name
    file_metas,     \* checker: the argument of annotate
    updated,        \* checker: the list annotate builds and returns
    idx,            \* checker: position of annotate's loop in file_metas
    test_found,     \* checker: the local flag of annotate
    pc,             \* checker: the section of annotate's loop body to run next
    contents,       \* what the files written by the generator hold: [path, content]
    to_generate,    \* main: the records with needs_test, passed to create_stubs
    gidx,           \* generator: position of create_stubs' loop in its argument
    created,        \* generator: the list create_stubs builds and returns
    gen_pc,         \* generator: where main and create_stubs stand
    counts,         \* coverage runner: the local dict of find_source_dir
    source_dir,     \* coverage runner: what find_source_dir returns
    cov_pc,         \* coverage runner: where find_source_dir stands
    file_paths,     \* launcher: the argument of open_many, each path with what
                    \*   the system answers for it (exists, subprocess.run)
    open_results,   \* launcher: the list open_many builds and returns
    oidx,           \* launcher: position of open_many's loop in file_paths
    l_pc,           \* launcher: where open_many stands
    main_pc,        \* main: the step of the pipeline to run next
    run             \* main: how many runs of main have started

scannerVars == <<root, extensions, exclude_dirs, pending, yielded>>
classifierVars ==
    <<paths, min_bytes, min_loc, cl_extensions, metas, cidx, content, loc, io_log, cl_pc>>
checkerVars == <<test_dir_name, file_metas, updated, idx, test_found, pc>>

generatorVars == <<to_generate, gidx, created, gen_pc>>
coverageVars == <<counts, source_dir, cov_pc>>
launcherVars == <<file_paths, open_results, oidx, l_pc>>
mainVars == <<main_pc, run>>

\* What the scanner, the classifier and the checker never write.
otherVars == <<contents, generatorVars, coverageVars, launcherVars, mainVars>>

vars == <<fs, scannerVars, classifierVars, checkerVars, otherVars>>

(***************************************************************************)
(* Sequences of characters                                                 *)
(***************************************************************************)

\* Python's `sub in s` for strings.
Contains(s, sub) ==
    \E i \in 0..(Len(s) - Len(sub)) : SubSeq(s, i + 1, i + Len(sub)) = sub

\* The positions of "." in a name.
DotPositions(name) == {i \in 1..Len(name) : name[i] = "."}

LastDot(name) ==
    CHOOSE i \in DotPositions(name) : \A j \in DotPositions(name) : j <= i

\* str.lower() on the letters of the alphabet.
UpperLetters ==
    <<"A", "B", "C", "D", "E", "F", "G", "H", "I", "J", "K", "L", "M",
      "N", "O", "P", "Q", "R", "S", "T", "U", "V", "W", "X", "Y", "Z">>

LowerLetters ==
    <<"a", "b", "c", "d", "e", "f", "g", "h", "i", "j", "k", "l", "m",
      "n", "o", "p", "q", "r", "s", "t", "u", "v", "w", "x", "y", "z">>

LowerChar(c) ==
    IF \E k \in 1..Len(UpperLetters) : UpperLetters[k] = c
    THEN LowerLetters[CHOOSE k \in 1..Len(UpperLetters) : UpperLetters[k] = c]
    ELSE c

Lower(s) == [i \in 1..Len(s) |-> LowerChar(s[i])]

\* pathlib's PurePath.suffix: the text from the last dot, unless the dot is the
\* first or the last character of the name.
Suffix(name) ==
    IF DotPositions(name) = {} THEN <<>>
    ELSE IF LastDot(name) > 1 /\ LastDot(name) < Len(name)
         THEN SubSeq(name, LastDot(name), Len(name))
         ELSE <<>>

\* pathlib's PurePath.stem: the name without its suffix.
Stem(name) == SubSeq(name, 1, Len(name) - Len(Suffix(name)))

(***************************************************************************)
(* fnmatch.translate, as pathlib's glob uses it on one path component      *)
(***************************************************************************)

\* The first position j >= from with pat[j] = "]", or Len(pat) + 1.
RECURSIVE ClassEnd(_, _)
ClassEnd(pat, from) ==
    IF from > Len(pat) THEN Len(pat) + 1
    ELSE IF pat[from] = "]" THEN from
    ELSE ClassEnd(pat, from + 1)

\* Where the search for the closing bracket of the "[" at position i starts:
\* after a leading "!" and after a "]" that comes first in the class.
ClassScanStart(pat, i) ==
    LET j1 == IF i + 1 <= Len(pat) /\ pat[i + 1] = "!" THEN i + 2 ELSE i + 1
    IN  IF j1 <= Len(pat) /\ pat[j1] = "]" THEN j1 + 1 ELSE j1

\* The pattern from position i on, as a sequence of elements:
\* "star" (*), "any" (?), "lit" (one literal character), "class" ([...]).
RECURSIVE Translate(_, _)
Translate(pat, i) ==
    IF i > Len(pat) THEN <<>>
    ELSE IF pat[i] = "*" THEN <<[kind |-> "star"]>> \o Translate(pat, i + 1)
    ELSE IF pat[i] = "?" THEN <<[kind |-> "any"]>> \o Translate(pat, i + 1)
    ELSE IF pat[i] = "["
         THEN LET j == ClassEnd(pat, ClassScanStart(pat, i))
                  neg == i + 1 <= Len(pat) /\ pat[i + 1] = "!"
                  first == IF neg THEN i + 2 ELSE i + 1
              IN  IF j > Len(pat)
                  THEN <<[kind |-> "lit", ch |-> "["]>> \o Translate(pat, i + 1)
                  ELSE <<[kind |-> "class", neg |-> neg,
                          chars |-> {pat[k] : k \in first..(j - 1)}]>>
                       \o Translate(pat, j + 1)
    ELSE <<[kind |-> "lit", ch |-> pat[i]]>> \o Translate(pat, i + 1)

ElementMatches(el, c) ==
    CASE el.kind = "any" -> TRUE
      [] el.kind = "lit" -> c = el.ch
      [] el.kind = "class" -> (c \in el.chars) # el.neg
      [] OTHER -> FALSE

\* re.fullmatch of the translated pattern els[e..] on name[n..].
RECURSIVE FullMatch(_, _, _, _)
FullMatch(els, e, name, n) ==
    IF e > Len(els) THEN n > Len(name)
    ELSE IF els[e].kind = "star"
         THEN \E m \in n..(Len(name) + 1) : FullMatch(els, e + 1, name, m)
    ELSE /\ n <= Len(name)
         /\ ElementMatches(els[e], name[n])
         /\ FullMatch(els, e + 1, name, n + 1)

FnMatch(name, pat) == FullMatch(Translate(pat, 1), 1, name, 1)

\* pathlib refuses a pattern component that holds "**" and is not "**".
InvalidPattern(pat) == Contains(pat, <<"*", "*">>) /\ pat # <<"*", "*">>

(***************************************************************************)
(* The file system                                                         *)
(***************************************************************************)

EntryPath(e) == Append(e.dir, e.name)

\* Path.exists(): the project root, or the path of an entry.
Exists(files, path) == path = <<>> \/ \E e \in files : EntryPath(e) = path

IsDirectory(files, path) ==
    path = <<>> \/ \E e \in files : EntryPath(e) = path /\ e.isDir

\* Path.glob(pat) with a one-component pattern: the direct children of dir
\* whose name matches; a path that is no directory has no children.
Glob(files, dir, pat) ==
    {e \in files : e.dir = dir /\ IsDirectory(files, dir) /\ FnMatch(e.name, pat)}

\* The directories pathlib's recursive selector visits: dir itself and, for
\* every child that is a directory, the directories under that child.
RECURSIVE IterateDirectories(_, _)
IterateDirectories(files, dir) ==
    {dir} \cup UNION {IterateDirectories(files, EntryPath(e)) :
                        e \in {c \in files : c.dir = dir /\ c.isDir}}

\* A non-recursive search of the tests root.
RGlobTopLevelOnly(files, dir, pat) == Glob(files, dir, pat)

\* Path.rglob(pat): the pattern applied in every visited directory.
RGlob(files, dir, pat) ==
    IF ~IsDirectory(files, dir) THEN {}
    ELSE UNION {Glob(files, d, pat) : d \in IterateDirectories(files, dir)}

(***************************************************************************)
(* FileScanner                                                             *)
(***************************************************************************)

\* FileScanner.__init__: the default extensions.
DefaultExtensions ==
    { <<".", "p", "y">>, <<".", "j", "s">>, <<".", "t", "s">>,
      <<".", "j", "a", "v", "a">>, <<".", "c", "p", "p">>, <<".", "c", "s">>,
      <<".", "g", "o">>, <<".", "r", "b">>, <<".", "p", "h", "p">>,
      <<".", "r", "s">> }

\* FileScanner.__init__: the default exclude_dirs.
DefaultExcludeDirs ==
    { <<".", "g", "i", "t">>,
      <<"n", "o", "d", "e", "_", "m", "o", "d", "u", "l", "e", "s">>,
      <<"v", "e", "n", "v">>,
      <<"_", "_", "p", "y", "c", "a", "c", "h", "e", "_", "_">>,
      <<"d", "i", "s", "t">>, <<"b", "u", "i", "l", "d">> }

\* `arg or default`: None and the empty list both select the default.
OrDefault(arg, default) == IF arg = {} THEN default ELSE arg

\* path.parts of an entry found under the scanner's root.
Parts(rootParts, e) == rootParts \o e.dir \o <<e.name>>

\* FileScanner._has_valid_ext
HasValidExt(e, exts) == Lower(Suffix(e.name)) \in exts

\* An exclusion test that looks at the name of the containing directory only.
IsExcludedByParentName(rootParts, e, excl) ==
    LET parent == rootParts \o e.dir
    IN  parent # <<>> /\ parent[Len(parent)] \in excl

\* FileScanner._is_excluded
IsExcluded(rootParts, e, excl) ==
    \E k \in 1..Len(Parts(rootParts, e)) : Parts(rootParts, e)[k] \in excl

\* One turn of the loop of FileScanner.scan: rglob produces some entry not yet
\* seen, and the body yields it or passes over it.
ScanStep ==
    /\ pending # {}
    /\ \E e \in pending :
          /\ pending' = pending \ {e}
          /\ yielded' =
                IF /\ ~e.isDir
                   /\ ~IsExcluded(root, e, exclude_dirs)
                   /\ HasValidExt(e, extensions)
                THEN Append(yielded, Parts(root, e))
                ELSE yielded
    /\ UNCHANGED <<fs, otherVars, root, extensions, exclude_dirs, classifierVars, checkerVars>>

(***************************************************************************)
(* CodeClassifier                                                          *)
(*                                                                         *)
(* The content of a file is held three times: `text`, its characters, for  *)
(* the line count; `parse`, what ast.parse makes of it, a syntax error or  *)
(* the definition nodes of the tree in source order, each with its parent  *)
(* (0 is the module); and `decls`, the declarations the regular            *)
(* expressions of the heuristic languages meet, in source order, each with *)
(* the form it is written in and the name it declares.  A path carries     *)
(* what the file system answers for it: `is_file`, `stat_ok`, `readable`,  *)
(* and `raises`, the calls on it that raise what classify does not catch.  *)
(***************************************************************************)

\* CodeClassifier.DEFAULT_EXTENSIONS
ClassifierDefaultExtensions == DefaultExtensions

\* CodeClassifier.LANGUAGE_MAP, with the default of .get().
LanguageMap(ext) ==
    CASE ext = <<".", "p", "y">> -> "Python"
      [] ext = <<".", "j", "s">> -> "JavaScript"
      [] ext = <<".", "t", "s">> -> "TypeScript"
      [] ext = <<".", "j", "a", "v", "a">> -> "Java"
      [] ext = <<".", "c", "p", "p">> -> "C++"
      [] ext = <<".", "c", "s">> -> "C#"
      [] ext = <<".", "g", "o">> -> "Go"
      [] ext = <<".", "r", "b">> -> "Ruby"
      [] ext = <<".", "p", "h", "p">> -> "PHP"
      [] ext = <<".", "r", "s">> -> "Rust"
      [] OTHER -> "Unknown"

\* The first line break at or after position i, or Len(text) + 1.
NextLineBreak(text, i) ==
    LET breaks == {j \in i..Len(text) : text[j] \in {"\n", "\r"}}
    IN  IF breaks = {} THEN Len(text) + 1
        ELSE CHOOSE j \in breaks : \A k \in breaks : j <= k

\* str.splitlines() for the line breaks "\n", "\r" and "\r\n": the lines of
\* text[i..]; a text that ends in a line break has no empty last line.
RECURSIVE SplitLinesFrom(_, _)
SplitLinesFrom(text, i) ==
    IF i > Len(text) THEN <<>>
    ELSE LET e == NextLineBreak(text, i)
             next == IF /\ e + 1 <= Len(text)
                        /\ text[e] = "\r"
                        /\ text[e + 1] = "\n"
                     THEN e + 2
                     ELSE e + 1
         IN  <<SubSeq(text, i, e - 1)>> \o SplitLinesFrom(text, next)

SplitLines(text) == SplitLinesFrom(text, 1)

Whitespace == {" ", "\t", "\n", "\r"}

\* str.strip()
RECURSIVE LStrip(_)
LStrip(s) ==
    IF s # <<>> /\ s[1] \in Whitespace THEN LStrip(Tail(s)) ELSE s

RECURSIVE RStrip(_)
RStrip(s) ==
    IF s # <<>> /\ s[Len(s)] \in Whitespace
    THEN RStrip(SubSeq(s, 1, Len(s) - 1))
    ELSE s

Strip(s) == RStrip(LStrip(s))

\* str.startswith(prefix)
StartsWith(s, prefix) ==
    Len(prefix) <= Len(s) /\ SubSeq(s, 1, Len(prefix)) = prefix

\* The two tuples of markers _count_code_lines skips.
LineCommentMarkers == { <<"#">>, <<"/", "/">> }
BlockCommentMarkers == { <<"/", "*">>, <<"*">>, <<"-", "-">> }

\* A count in which the test for "--" is missing.
RECURSIVE CountLinesKeepingDashes(_)
CountLinesKeepingDashes(lines) ==
    IF lines = <<>> THEN 0
    ELSE LET stripped == Strip(Head(lines))
         IN  IF stripped = <<>> THEN CountLinesKeepingDashes(Tail(lines))
             ELSE IF \E mk \in LineCommentMarkers \cup { <<"/", "*">>, <<"*">> } :
                        StartsWith(stripped, mk)
                  THEN CountLinesKeepingDashes(Tail(lines))
             ELSE 1 + CountLinesKeepingDashes(Tail(lines))

\* The loop of _count_code_lines over the lines.
RECURSIVE CountLines(_)
CountLines(lines) ==
    IF lines = <<>> THEN 0
    ELSE LET stripped == Strip(Head(lines))
         IN  IF stripped = <<>> THEN CountLines(Tail(lines))
             ELSE IF \E mk \in LineCommentMarkers : StartsWith(stripped, mk)
                  THEN CountLines(Tail(lines))
             ELSE IF \E mk \in BlockCommentMarkers : StartsWith(stripped, mk)
                  THEN CountLines(Tail(lines))
             ELSE 1 + CountLines(Tail(lines))

\* CodeClassifier._count_code_lines
CountCodeLines(text) == CountLines(SplitLines(text))

\* The members of a set of numbers, in ascending order.
RECURSIVE Ascending(_)
Ascending(S) ==
    IF S = {} THEN <<>>
    ELSE LET least == CHOOSE x \in S : \A y \in S : x <= y
         IN  <<least>> \o Ascending(S \ {least})

\* ast.iter_child_nodes, restricted to the definition nodes: the children of
\* node p (0 is the module) in the order of the body.
ChildNodes(nodes, p) == Ascending({i \in 1..Len(nodes) : nodes[i].parent = p})

\* ast.walk: breadth first, from a queue.
RECURSIVE WalkFrom(_, _)
WalkFrom(nodes, queue) ==
    IF queue = <<>> THEN <<>>
    ELSE <<Head(queue)>>
         \o WalkFrom(nodes, Tail(queue) \o ChildNodes(nodes, Head(queue)))

Walk(nodes) == WalkFrom(nodes, <<0>>)

\* The Python branch of _extract_function_names: the names of the FunctionDef
\* nodes in the order of the walk, nothing after a SyntaxError.
PythonNames(parse) ==
    IF ~parse.ok THEN <<>>
    ELSE LET IsFunctionDef(i) == i # 0 /\ parse.nodes[i].kind = "FunctionDef"
             found == SelectSeq(Walk(parse.nodes), IsFunctionDef)
         IN  [k \in 1..Len(found) |-> parse.nodes[found[k]].name]

\* The forms of declaration that the signature-with-brace expressions of Java,
\* C++ and C# match: anything written `word name(...) {`.
BraceForms == {"function", "method", "func", "fn"}

\* The regular expressions of a language, in the order their results are
\* appended to names, each as the set of forms it matches.
Rules(language) ==
    CASE language \in {"JavaScript", "TypeScript"} -> << {"function"}, {"arrow"} >>
      [] language \in {"Java", "C++", "C#"} -> << BraceForms >>
      [] language = "Go" -> << {"func"} >>
      [] language = "Ruby" -> << {"def"} >>
      [] language = "PHP" -> << {"function"} >>
      [] language = "Rust" -> << {"fn"} >>
      [] OTHER -> << >>

\* re.findall of one expression: the names it captures, in source order.
FindAll(forms, decls) ==
    LET Matches(d) == d.form \in forms
        found == SelectSeq(decls, Matches)
    IN  [k \in 1..Len(found) |-> found[k].name]

\* names.extend(...) for every expression of the language, in order.
RECURSIVE ExtendAll(_, _)
ExtendAll(rules, decls) ==
    IF rules = <<>> THEN <<>>
    ELSE FindAll(Head(rules), decls) \o ExtendAll(Tail(rules), decls)

\* The names before deduplication.
RawNames(c, language) ==
    IF language = "Python" THEN PythonNames(c.parse)
    ELSE ExtendAll(Rules(language), c.decls)

\* A return without deduplication.
KeepDuplicates(names) == names

\* list(dict.fromkeys(names))
Deduplicate(names) ==
    LET IsFirst(k) == \A j \in 1..(k - 1) : names[j] # names[k]
        kept == Ascending({k \in 1..Len(names) : IsFirst(k)})
    IN  [k \in 1..Len(kept) |-> names[kept[k]]]

\* CodeClassifier._extract_function_names
ExtractFunctionNames(c, language) == Deduplicate(RawNames(c, language))

\* What `content` holds before the first read_text, and after a failed one.
NoContent ==
    [text |-> <<>>, parse |-> [ok |-> FALSE, nodes |-> <<>>], decls |-> <<>>]

\* path.stat().st_size: the number of bytes of the file.
Size(p) == Len(p.content.text)

\* A size test that rejects a file of exactly min_bytes bytes.
SizeBelowOrAtMinimum(size, minimum) == size <= minimum

\* path.stat().st_size < self.min_bytes
SizeBelowMinimum(size, minimum) == size < minimum

CurrentPath == paths[cidx]

\* `continue`, or the end of the loop body: on to the next path, or return.
NextPath ==
    /\ cidx' = cidx + 1
    /\ cl_pc' = IF cidx + 1 > Len(paths) THEN "done" ELSE "is_file"

\* if not path.is_file(): continue
\* Path.is_file returns False for a path that does not exist (ENOENT, ENOTDIR,
\* EBADF, ELOOP) and lets every other OSError of os.stat through, which nothing
\* in classify catches.
ClassifyIsFile ==
    /\ cl_pc = "is_file"
    /\ io_log' = io_log \cup {<<"is_file", cidx>>}
    /\ IF "is_file" \in CurrentPath.raises
       THEN cl_pc' = "raised" /\ cidx' = cidx
       ELSE IF CurrentPath.is_file
            THEN cl_pc' = "suffix" /\ cidx' = cidx
            ELSE NextPath
    /\ UNCHANGED <<fs, otherVars, scannerVars, checkerVars, paths, min_bytes, min_loc,
                   cl_extensions, metas, content, loc>>

\* if path.suffix.lower() not in self.extensions: continue
ClassifySuffix ==
    /\ cl_pc = "suffix"
    /\ IF Lower(Suffix(CurrentPath.path.name)) \in cl_extensions
       THEN cl_pc' = "stat" /\ cidx' = cidx
       ELSE NextPath
    /\ UNCHANGED <<fs, otherVars, scannerVars, checkerVars, paths, min_bytes, min_loc,
                   cl_extensions, metas, content, loc, io_log>>

\* try: if path.stat().st_size < self.min_bytes: continue
\* except OSError: continue
ClassifyStat ==
    /\ cl_pc = "stat"
    /\ io_log' = io_log \cup {<<"stat", cidx>>}
    /\ IF CurrentPath.stat_ok /\ ~SizeBelowMinimum(Size(CurrentPath), min_bytes)
       THEN cl_pc' = "read" /\ cidx' = cidx
       ELSE NextPath
    /\ UNCHANGED <<fs, otherVars, scannerVars, checkerVars, paths, min_bytes, min_loc,
                   cl_extensions, metas, content, loc>>

\* content = self._read_file(path); if content is None: continue
ClassifyRead ==
    /\ cl_pc = "read"
    /\ io_log' = io_log \cup {<<"read", cidx>>}
    /\ content' = IF CurrentPath.readable THEN CurrentPath.content ELSE NoContent
    /\ IF CurrentPath.readable
       THEN cl_pc' = "count" /\ cidx' = cidx
       ELSE NextPath
    /\ UNCHANGED <<fs, otherVars, scannerVars, checkerVars, paths, min_bytes, min_loc,
                   cl_extensions, metas, loc>>

\* loc = self._count_code_lines(content); if loc < self.min_loc: continue
ClassifyCount ==
    /\ cl_pc = "count"
    /\ loc' = CountCodeLines(content.text)
    /\ IF CountCodeLines(content.text) < min_loc
       THEN NextPath
       ELSE cl_pc' = "append" /\ cidx' = cidx
    /\ UNCHANGED <<fs, otherVars, scannerVars, checkerVars, paths, min_bytes, min_loc,
                   cl_extensions, metas, content, io_log>>

\* ast.parse raises something else than SyntaxError (MemoryError, RecursionError),
\* which _extract_function_names does not catch.
ParseRaises(p, language) == language = "Python" /\ "parse" \in p.raises

\* lang = ...; funcs = ...; metas.append({...})
ClassifyAppend ==
    /\ cl_pc = "append"
    /\ LET lang == LanguageMap(Lower(Suffix(CurrentPath.path.name)))
       IN  IF ParseRaises(CurrentPath, lang)
           THEN metas' = metas /\ cl_pc' = "raised" /\ cidx' = cidx
           ELSE /\ metas' = Append(metas,
                       [path |-> CurrentPath.path,
                        language |-> lang,
                        lines_of_code |-> loc,
                        func_names |-> ExtractFunctionNames(content, lang)])
                /\ NextPath
    /\ UNCHANGED <<fs, otherVars, scannerVars, checkerVars, paths, min_bytes, min_loc,
                   cl_extensions, content, loc, io_log>>

Classify ==
    \/ ClassifyIsFile
    \/ ClassifySuffix
    \/ ClassifyStat
    \/ ClassifyRead
    \/ ClassifyCount
    \/ ClassifyAppend

(***************************************************************************)
(* TestChecker                                                             *)
(***************************************************************************)

\* TestChecker.__init__: the default test_patterns.
TestPatterns ==
    << <<"t", "e", "s", "t", "_">>, <<"_", "t", "e", "s", "t">>,
       <<"s", "p", "e", "c", "_">>, <<"_", "s", "p", "e", "c">>,
       <<".", "t", "e", "s", "t", ".">>, <<".", "s", "p", "e", "c", ".">> >>

\* any(pat in candidate.name for pat in self.test_patterns)
HasTestPattern(name) ==
    \E k \in 1..Len(TestPatterns) : Contains(name, TestPatterns[k])

\* f"*{base}*"
BasePattern(base) == <<"*">> \o base \o <<"*">>

\* The literal name of the sibling folder of step 2.
TestsName == <<"t", "e", "s", "t", "s">>

\* self.tests_root = project_root / test_dir_name
TestsRoot == <<test_dir_name>>

\* The record annotate is working on, its base and its parent directory.
CurrentMeta == file_metas[idx]
Base == Stem(CurrentMeta.path.name)
Parent == CurrentMeta.path.dir

\* One of the three loops `for candidate in <glob>: if any(...): found`.
AnyCandidate(candidates) == \E c \in candidates : HasTestPattern(c.name)

\* Step 1 of the loop body: the source file's own directory.  A base that puts
\* "**" into the pattern makes pathlib raise ValueError, which annotate does not
\* catch.
AnnotateSameDir ==
    /\ pc = "same_dir"
    /\ \/ /\ ~InvalidPattern(BasePattern(Base))
          /\ test_found' = AnyCandidate(Glob(fs, Parent, BasePattern(Base)))
          /\ pc' = "sibling_tests"
       \/ /\ InvalidPattern(BasePattern(Base))
          /\ test_found' = test_found
          /\ pc' = "raised"
    /\ UNCHANGED <<fs, otherVars, scannerVars, classifierVars, test_dir_name, file_metas, updated, idx>>

\* Step 2: the `tests` folder next to the source file.
AnnotateSiblingTests ==
    /\ pc = "sibling_tests"
    /\ test_found' =
          IF ~test_found /\ Exists(fs, Append(Parent, TestsName))
          THEN AnyCandidate(Glob(fs, Append(Parent, TestsName), BasePattern(Base)))
          ELSE test_found
    /\ pc' = "tests_root"
    /\ UNCHANGED <<fs, otherVars, scannerVars, classifierVars, test_dir_name, file_metas, updated, idx>>

\* Step 3: the tests directory at the project root, recursively.
AnnotateTestsRoot ==
    /\ pc = "tests_root"
    /\ test_found' =
          IF ~test_found /\ Exists(fs, TestsRoot)
          THEN AnyCandidate(RGlob(fs, TestsRoot, BasePattern(Base)))
          ELSE test_found
    /\ pc' = "set_flag"
    /\ UNCHANGED <<fs, otherVars, scannerVars, classifierVars, test_dir_name, file_metas, updated, idx>>

\* meta["needs_test"] = not test_found; updated.append(meta); next iteration
\* (which starts with test_found = False) or return.
AnnotateSetFlag ==
    /\ pc = "set_flag"
    /\ updated' = Append(updated, [needs_test |-> ~test_found] @@ CurrentMeta)
    /\ idx' = idx + 1
    /\ test_found' = FALSE
    /\ pc' = IF idx + 1 > Len(file_metas) THEN "done" ELSE "same_dir"
    /\ UNCHANGED <<fs, otherVars, scannerVars, classifierVars, test_dir_name, file_metas>>

Annotate ==
    \/ AnnotateSameDir
    \/ AnnotateSiblingTests
    \/ AnnotateTestsRoot
    \/ AnnotateSetFlag

(***************************************************************************)
(* TestGenerator and step 5 of main                                        *)
(*                                                                         *)
(* The paths of the records are relative to the root directory, so that    *)
(* src.relative_to(project_root) is the path itself.  A function name is   *)
(* one character.  What a stub holds is kept as the classifier reads it:   *)
(* its text, what ast.parse makes of it, and the declarations the regular  *)
(* expressions meet in it.                                                 *)
(***************************************************************************)

\* sep.join(parts)
RECURSIVE Join(_, _)
Join(sep, parts) ==
    IF parts = <<>> THEN <<>>
    ELSE IF Len(parts) = 1 THEN parts[1]
    ELSE parts[1] \o sep \o Join(sep, Tail(parts))

\* LANG_TEMPLATES: the languages that have a template.
LangTemplates == {"Python", "JavaScript"}

\* COMMENT_MARKERS.get(lang, COMMENT_MARKERS["default"])
CommentMarker(lang) ==
    IF lang = "Python"
    THEN <<"#", " ", "c", "o", "p", "i", "l", "o", "t", ":", " ", "w", "r",
        "i", "t", "e", " ", "t", "e", "s", "t", "s", " ", "f", "o", "r", " ",
        "t", "h", "i", "s", " ", "f", "u", "n", "c", "t", "i", "o", "n", "\n",
        "\n">>
    ELSE <<"/", "/", " ", "c", "o", "p", "i", "l", "o", "t", ":", " ", "w",
        "r", "i", "t", "e", " ", "t", "e", "s", "t", "s", " ", "f", "o", "r",
        " ", "t", "h", "i", "s", " ", "f", "u", "n", "c", "t", "i", "o", "n",
        "\n", "\n">>

\* test_name: by language, with the fallback for what is neither Python nor
\* starts with JavaScript.
StubName(lang, stem) ==
    IF lang = "Python" THEN <<"t", "e", "s", "t", "_">> \o stem \o <<".", "p",
        "y">>
    ELSE IF lang = "JavaScript" THEN stem \o <<".", "t", "e", "s", "t", ".",
        "j", "s">>
    ELSE <<"t", "e", "s", "t", "_">> \o stem \o <<".", "t", "x", "t">>

\* The skeleton of one function in the Python and in the JavaScript template.
PythonSkeleton(fn) ==
    <<"d", "e", "f", " ", "t", "e", "s", "t", "_">> \o <<fn>> \o <<"(", ")",
        ":", "\n", " ", " ", " ", " ", "#", " ", "T", "O", "D", "O", ":", " ",
        "t", "e", "s", "t", " ">> \o <<fn>>
        \o <<"\n", " ", " ", " ", " ", "a", "s", "s", "e", "r", "t", " ", "F",
            "a", "l", "s", "e", "\n">>

JavaScriptSkeleton(fn) ==
    <<" ", " ", "i", "t", "(", "'", "s", "h", "o", "u", "l", "d", " ", "t",
        "e", "s", "t", " ">> \o <<fn>> \o <<"'", ",", " ", "(", ")", " ", "=",
        ">", " ", "{", "\n", " ", " ", " ", " ", "/", "/", " ", "T", "O", "D",
        "O", ":", " ", "t", "e", "s", "t", " ">>
        \o <<fn>> \o <<"\n", " ", " ", " ", " ", "e", "x", "p", "e", "c", "t",
            "(", "f", "a", "l", "s", "e", ")", ".", "t", "o", "B", "e", "(",
            "t", "r", "u", "e", ")", ";", "\n", " ", " ", "}", ")", ";", "\n">>

\* tests_block
TestsBlock(lang, funcs) ==
    IF lang = "Python"
    THEN Join(<<"\n">>, [k \in 1..Len(funcs) |-> PythonSkeleton(funcs[k])])
    ELSE Join(<<"\n">>, [k \in 1..Len(funcs) |-> JavaScriptSkeleton(funcs[k])])

\* str(path) of a path relative to the root.
PathString(p) == Join(<<"/">>, Append(p.dir, p.name))

\* tmpl.format(...), or the fallback placeholder of a language without template.
StubBody(m) ==
    LET stem == Stem(m.path.name)
        names == Join(<<",", " ">>,
                      [k \in 1..Len(m.func_names) |-> <<m.func_names[k]>>])
    IN  IF m.language = "Python"
        THEN <<"i", "m", "p", "o", "r", "t", " ", "p", "y", "t", "e", "s", "t",
            "\n", "f", "r", "o", "m", " ">> \o Join(<<".">>, Append(m.path.dir,
            stem))
                 \o <<" ", "i", "m", "p", "o", "r", "t",
                     " ">> \o names \o <<"\n", "\n">>
                 \o TestsBlock(m.language, m.func_names) \o <<"\n">>
        ELSE IF m.language = "JavaScript"
        THEN <<"c", "o", "n", "s", "t", " ", "{", " ", "d", "e", "s", "c", "r",
            "i", "b", "e", ",", " ", "i", "t", ",", " ", "e", "x", "p", "e",
            "c", "t", " ", "}", " ", "=", " ", "r", "e", "q", "u", "i", "r",
            "e", "(", "'", "j", "e", "s", "t", "'", ")", ";", "\n", "c", "o",
            "n", "s", "t", " ", "{", " ">>
                 \o names \o <<" ", "}", " ", "=", " ", "r", "e", "q", "u",
                     "i", "r", "e", "(", "'">>
                 \o Join(<<"/">>, Append(m.path.dir, stem))
                 \o <<"'", ")", ";", "\n", "\n", "d", "e", "s", "c", "r", "i",
                     "b", "e", "(", "'">> \o stem \o <<"'", ",", " ", "(", ")",
                     " ", "=", ">", " ", "{", "\n">>
                 \o TestsBlock(m.language, m.func_names) \o <<"\n", "}", ")",
                     ";", "\n">>
        ELSE <<"#", " ", "T", "O", "D", "O", ":", " ", "w", "r", "i", "t", "e",
            " ", "t", "e", "s", "t", "s", " ", "f", "o", "r",
            " ">> \o PathString(m.path) \o <<"\n">>

\* final_content = marker + content
StubText(m) == CommentMarker(m.language) \o StubBody(m)

\* The name of the test function of a skeleton.
TestFunctionName(fn) ==
    CASE fn = "f" -> "test_f"
      [] fn = "g" -> "test_g"
      [] fn = "h" -> "test_h"
      [] fn = "k" -> "test_k"
      [] OTHER -> "test_test"

\* A name Python takes as an identifier in `from a.b import f`.
IsIdentifier(name) ==
    LET Letters == {LowerLetters[k] : k \in 1..Len(LowerLetters)}
                   \cup {UpperLetters[k] : k \in 1..Len(UpperLetters)} \cup {"_"}
        Digits == {"0", "1", "2", "3", "4", "5", "6", "7", "8", "9"}
    IN  /\ name # <<>>
        /\ name[1] \in Letters
        /\ \A k \in 1..Len(name) : name[k] \in Letters \cup Digits

\* What the classifier reads in a stub: a Python stub parses into one test
\* function per skeleton, unless its import statement names nothing or names
\* a module that is no dotted name; the
\* expressions of the other languages meet no declaration in a stub.
StubContent(m) ==
    [text |-> StubText(m),
     parse |->
        IF /\ m.language = "Python"
           /\ m.func_names # <<>>
           /\ \A k \in 1..Len(m.path.dir) : IsIdentifier(m.path.dir[k])
           /\ IsIdentifier(Stem(m.path.name))
        THEN [ok |-> TRUE,
              nodes |-> [k \in 1..Len(m.func_names) |->
                            [kind |-> "FunctionDef",
                             name |-> TestFunctionName(m.func_names[k]),
                             parent |-> 0]]]
        ELSE [ok |-> FALSE, nodes |-> <<>>],
     decls |-> <<>>]

\* test_path = self.tests_root / rel.parent / test_name
StubEntry(m) ==
    [dir |-> <<test_dir_name>> \o m.path.dir,
     name |-> StubName(m.language, Stem(m.path.name)),
     isDir |-> FALSE]

\* The directories leading to an entry, as entries.
ParentDirectories(e) ==
    {[dir |-> SubSeq(e.dir, 1, k - 1), name |-> e.dir[k], isDir |-> TRUE] :
        k \in 1..Len(e.dir)}

\* mkdir(parents=True, exist_ok=True) or open(test_path, "w") fails: a file lies
\* where a directory is to be, or a directory where the stub is to be.
CannotWrite(files, e) ==
    \/ \E d \in ParentDirectories(e) : [d EXCEPT !.isDir = FALSE] \in files
    \/ [e EXCEPT !.isDir = TRUE] \in files

\* with open(test_path, "w") as f: f.write(final_content)
WriteText(store, path, c) ==
    {w \in store : w.path # path} \cup {[path |-> path, content |-> c]}

\* to_generate = [m for m in results if m.get("needs_test")]; then either the
\* call of create_stubs or stubs = [].
MainSelect ==
    /\ gen_pc = "select"
    /\ pc = "done"
    /\ LET NeedsTest(m) == m.needs_test
       IN  /\ to_generate' = SelectSeq(updated, NeedsTest)
           /\ gen_pc' = IF SelectSeq(updated, NeedsTest) = <<>> THEN "done" ELSE "stub"
    /\ gidx' = 1
    /\ created' = <<>>
    /\ UNCHANGED <<fs, contents, scannerVars, classifierVars, checkerVars,
                   coverageVars, launcherVars, mainVars>>

\* One turn of the loop of create_stubs: make the directory, render, write.
CreateStub ==
    /\ gen_pc = "stub"
    /\ LET m == to_generate[gidx]
           e == StubEntry(m)
       IN  IF CannotWrite(fs, e)
           THEN /\ gen_pc' = "raised"
                /\ fs' = fs \cup {d \in ParentDirectories(e) :
                                    \A a \in ParentDirectories(d) \cup {d} :
                                        [a EXCEPT !.isDir = FALSE] \notin fs}
                /\ UNCHANGED <<contents, created, gidx>>
           ELSE /\ fs' = fs \cup ParentDirectories(e) \cup {e}
                /\ contents' = WriteText(contents, EntryPath(e), StubContent(m))
                /\ created' = Append(created, EntryPath(e))
                /\ gidx' = gidx + 1
                /\ gen_pc' = IF gidx + 1 > Len(to_generate) THEN "done" ELSE "stub"
    /\ UNCHANGED <<to_generate, scannerVars, classifierVars, checkerVars,
                   coverageVars, launcherVars, mainVars>>

\* Step 5 of main with TestGenerator.create_stubs.
Generate == MainSelect \/ CreateStub

\* No file written by the generator, and the generator not called.
GeneratorIdle ==
    /\ contents = {}
    /\ to_generate = <<>>
    /\ gidx = 1
    /\ created = <<>>
    /\ gen_pc = "idle"

\* find_source_dir not called.
CoverageIdle ==
    /\ counts = <<>>
    /\ source_dir = <<>>
    /\ cov_pc = "idle"

\* open_many not called.
LauncherIdle ==
    /\ file_paths = <<>>
    /\ open_results = <<>>
    /\ oidx = 1
    /\ l_pc = "idle"

\* main not run as a whole.
MainIdle ==
    /\ main_pc = "idle"
    /\ run = 0

OtherIdle == GeneratorIdle /\ CoverageIdle /\ LauncherIdle /\ MainIdle

(***************************************************************************)
(* Inputs of the checker                                                   *)
(***************************************************************************)

MaxDepth == 2
MaxEntries == 1
MaxStemLen == 3
MaxBodyLen == 2

SrcName == <<"s", "r", "c">>
PyExt == <<".", "p", "y">>

DirNames == {SrcName, TestsName}

\* Sequences over S of length 0..n.
SeqsUpTo(S, n) == UNION {[1..k -> S] : k \in 0..n}

Dirs == SeqsUpTo(DirNames, MaxDepth)

\* The subsets of S with at most n elements.
RECURSIVE SubsetsUpTo(_, _)
SubsetsUpTo(S, n) ==
    IF n = 0 THEN {{}}
    ELSE SubsetsUpTo(S, n - 1)
         \cup {A \cup {x} : A \in SubsetsUpTo(S, n - 1), x \in S}

\* The entries of every directory on the way to the given entries.
Ancestors(entries) ==
    UNION {{[dir |-> SubSeq(e.dir, 1, k - 1), name |-> e.dir[k], isDir |-> TRUE] :
              k \in 1..Len(e.dir)} : e \in entries}

\* A file system holding the given entries: a tree, in which no path is taken twice.
FileSystem(entries) == entries \cup Ancestors(entries)

WellFormed(files) ==
    \A e1, e2 \in files : EntryPath(e1) = EntryPath(e2) => e1 = e2

SourceEntry(dir, name) == [dir |-> dir, name |-> name, isDir |-> FALSE]

\* FileScanner.__init__ and the call of scan: nothing walked, nothing yielded.
ScanStart(files, rootParts, extArg, exclArg) ==
    /\ root = rootParts
    /\ extensions = OrDefault(extArg, DefaultExtensions)
    /\ exclude_dirs = OrDefault(exclArg, DefaultExcludeDirs)
    /\ pending = files
    /\ yielded = <<>>

\* No scan under way.
ScannerIdle == ScanStart({}, <<>>, {}, {})

\* The defaults of CodeClassifier.__init__.
DefaultMinBytes == 100
DefaultMinLoc == 10

\* CodeClassifier.__init__ and the call of classify(paths).
ClassifyStart(ps, minBytes, minLoc, extArg) ==
    /\ paths = ps
    /\ min_bytes = minBytes
    /\ min_loc = minLoc
    /\ cl_extensions = OrDefault(extArg, ClassifierDefaultExtensions)
    /\ metas = <<>>
    /\ cidx = 1
    /\ content = NoContent
    /\ loc = 0
    /\ io_log = {}
    /\ cl_pc = IF ps = <<>> THEN "done" ELSE "is_file"

\* No classification under way.
ClassifierIdle == ClassifyStart(<<>>, DefaultMinBytes, DefaultMinLoc, {})

\* TestChecker.__init__ and the call of annotate(metas).
AnnotateStart(testDir, records) ==
    /\ test_dir_name = testDir
    /\ file_metas = records
    /\ updated = <<>>
    /\ idx = 1
    /\ test_found = FALSE
    /\ pc = IF records = <<>> THEN "done" ELSE "same_dir"

\* Names next to a source file a.py or [a].py: a test of it, a file that only
\* shares its base, a test of something else.
ScopeNames ==
    { <<"t", "e", "s", "t", "_", "a", ".", "p", "y">>,
      <<"a", "_", "x", ".", "p", "y">>,
      <<"t", "e", "s", "t", "_", "b", ".", "p", "y">> }

ScopeSources == { <<"a">> \o PyExt, <<"[", "a", "]">> \o PyExt }

\* Every name as a file, and the test of a.py as a directory too.
ScopePool ==
    [dir : Dirs, name : ScopeNames, isDir : {FALSE}]
    \cup [dir : Dirs, name : {<<"t", "e", "s", "t", "_", "a", ".", "p", "y">>},
          isDir : {TRUE}]

\* Any tree of at most MaxEntries entries besides the source file, which lies
\* in any directory; the tests root is `tests` or `src`.
InitScopes ==
    \E leaves \in SubsetsUpTo(ScopePool, MaxEntries), d \in Dirs,
       n \in ScopeSources, t \in DirNames :
        /\ WellFormed(FileSystem(leaves \cup {SourceEntry(d, n)}))
        /\ fs = FileSystem(leaves \cup {SourceEntry(d, n)})
        /\ AnnotateStart(t, <<[path |-> [dir |-> d, name |-> n]]>>)
        /\ ScannerIdle
        /\ ClassifierIdle
        /\ OtherIdle

SpecScopes == InitScopes /\ [][Annotate]_vars

\* The candidate test annotate applies in every scope.
CandidateTest(e, base) ==
    FnMatch(e.name, BasePattern(base)) /\ HasTestPattern(e.name)

IsPrefix(p, q) == Len(p) <= Len(q) /\ SubSeq(q, 1, Len(p)) = p

\* The three scopes of a source path, as sets of entries.
InOwnDirectory(files, e, src) == e.dir = src.dir
InSiblingTests(files, e, src) == e.dir = Append(src.dir, TestsName)
UnderTestsRoot(files, e, src) == IsPrefix(TestsRoot, e.dir)

InSomeScope(files, e, src) ==
    \/ InOwnDirectory(files, e, src)
    \/ InSiblingTests(files, e, src)
    \/ UnderTestsRoot(files, e, src)

\* C1: when annotate has returned, every record has needs_test = TRUE exactly
\* when no entry of the source's own directory, of the `tests` directory next
\* to it, or of any depth under <project_root>/<test_dir_name> passes the
\* candidate test.
C1_NeedsTestIffNoScopeMatches ==
    pc = "done" =>
        \A i \in 1..Len(updated) :
            updated[i].needs_test =
                ~\E e \in fs :
                    /\ InSomeScope(fs, e, updated[i].path)
                    /\ CandidateTest(e, Stem(updated[i].path.name))

\* C1 witness: the only match lies two levels under the tests root, outside
\* the first two scopes, and the flag is cleared.
C1_Witness ==
    /\ pc = "done"
    /\ Len(updated) = 1
    /\ ~updated[1].needs_test
    /\ \E e \in fs :
          /\ CandidateTest(e, Stem(updated[1].path.name))
          /\ Len(e.dir) >= 2
          /\ UnderTestsRoot(fs, e, updated[1].path)
    /\ \A e \in fs :
          CandidateTest(e, Stem(updated[1].path.name)) =>
              /\ ~InOwnDirectory(fs, e, updated[1].path)
              /\ ~InSiblingTests(fs, e, updated[1].path)

(***************************************************************************)
(* One candidate next to, or in the tests root of, a source file of any    *)
(* base                                                                    *)
(***************************************************************************)

StemAlphabet == {"a", "[", "]", "*", "?"}

Stems == SeqsUpTo(StemAlphabet, MaxStemLen) \ {<<>>}

\* The six naming conventions, as what comes before and after a body.
Affixes ==
    { <<<<>>, <<>>>> }
    \cup {<<TestPatterns[k], <<>>>> : k \in {1, 3}}
    \cup {<<<<>>, TestPatterns[k]>> : k \in {2, 4, 5, 6}}

\* Candidate names for a source of base `stem`: a short body, or the base itself,
\* with or without a marker.
CandidateNames(stem) ==
    {a[1] \o b \o a[2] :
        a \in Affixes, b \in SeqsUpTo(StemAlphabet, MaxBodyLen) \cup {stem}}
    \ {<<>>}

\* Where the candidate lies and what it is: a file or a directory in the source's
\* directory, or a file two levels under the tests root.
Placements ==
    { [dir |-> <<SrcName>>, isDir |-> FALSE],
      [dir |-> <<SrcName>>, isDir |-> TRUE],
      [dir |-> <<TestsName, SrcName>>, isDir |-> FALSE] }

InitMatch ==
    \E stem \in Stems, pl \in Placements :
        \E name \in CandidateNames(stem) :
            LET files == FileSystem({ SourceEntry(<<SrcName>>, stem \o PyExt),
                                      [dir |-> pl.dir, name |-> name,
                                       isDir |-> pl.isDir] })
            IN  /\ WellFormed(files)
                /\ fs = files
                /\ AnnotateStart(TestsName,
                       <<[path |-> [dir |-> <<SrcName>>, name |-> stem \o PyExt]]>>)
                /\ ScannerIdle
                /\ ClassifierIdle
                /\ OtherIdle

SpecMatch == InitMatch /\ [][Annotate]_vars

\* The naming rule of the specification: an existing file whose name holds the
\* base as a literal substring and one of the markers.
IsTestArtifact(e, base) ==
    /\ ~e.isDir
    /\ Contains(e.name, base)
    /\ HasTestPattern(e.name)

\* C2: in the searched scopes, exactly the files whose name holds the base
\* literally, and a marker, count as a match: when annotate has returned,
\* needs_test = FALSE exactly when such a file exists in a scope.
C2_MatchIsFileWithLiteralStemAndMarker ==
    pc = "done" =>
        \A i \in 1..Len(updated) :
            updated[i].needs_test =
                ~\E e \in fs :
                    /\ InSomeScope(fs, e, updated[i].path)
                    /\ IsTestArtifact(e, Stem(updated[i].path.name))

(***************************************************************************)
(* Inputs of the scanner                                                   *)
(***************************************************************************)

Slash == <<"/">>
HomeName == <<"h", "o", "m", "e">>
ProjName == <<"p", "r", "o", "j">>
BuildName == <<"b", "u", "i", "l", "d">>

\* The root as passed: relative ("."), or resolved to an absolute path, in which
\* a directory above the root, or the root itself, may be called `build`.
ScanRoots ==
    { <<>>, <<Slash, HomeName, ProjName>>, <<Slash, BuildName, ProjName>>,
      <<Slash, HomeName, BuildName>> }

\* The extensions argument: absent, or a list.
ExtensionArgs == { {}, {<<".", "P", "Y">>, <<".", "t", "x", "t">>} }

\* The exclude_dirs argument: absent, or a list.
ExcludeArgs == { {}, {SrcName} }

ScanDirs == SeqsUpTo({SrcName, BuildName}, MaxDepth)

ScanFileNames == { <<"B", ".", "P", "Y">>, <<"c", ".", "t", "x", "t">> }

\* A file of either name, or a directory called a.py.
ScanPool ==
    [dir : ScanDirs, name : ScanFileNames, isDir : {FALSE}]
    \cup [dir : ScanDirs, name : {<<"a">> \o PyExt}, isDir : {TRUE}]

CheckerIdle ==
    /\ test_dir_name = TestsName
    /\ file_metas = <<>>
    /\ updated = <<>>
    /\ idx = 1
    /\ test_found = FALSE
    /\ pc = "idle"

InitScan ==
    \E leaves \in SubsetsUpTo(ScanPool, MaxEntries), r \in ScanRoots,
       x \in ExtensionArgs, d \in ExcludeArgs :
        /\ WellFormed(FileSystem(leaves))
        /\ fs = FileSystem(leaves)
        /\ ScanStart(FileSystem(leaves), r, x, d)
        /\ ClassifierIdle
        /\ CheckerIdle
        /\ OtherIdle

SpecScan == InitScan /\ [][ScanStep]_vars

\* The entry of the file system a yielded path names.
EntryOf(path) == CHOOSE e \in fs : Parts(root, e) = path

\* x and y are equal when letter case is ignored.
EqualIgnoringCase(x, y) == Lower(x) = Lower(y)

\* C3: every yielded path is a regular file, has an extension equal, case
\* ignored, to an entry of the scanner's allow-list, and has no segment, at any
\* depth, that is an excluded directory name.
C3_YieldedPathsAreAllowedFilesOutsideExcluded ==
    \A i \in 1..Len(yielded) :
        /\ \E e \in fs : Parts(root, e) = yielded[i]
        /\ ~EntryOf(yielded[i]).isDir
        /\ \E x \in extensions :
              EqualIgnoringCase(Suffix(EntryOf(yielded[i]).name), x)
        /\ \A k \in 1..Len(yielded[i]) : yielded[i][k] \notin exclude_dirs

\* C3 witness: a file with an upper-case extension, two directories down, has
\* been yielded while the exclude set was in force on a tree holding `build`.
C3_Witness ==
    \E i \in 1..Len(yielded) :
        /\ EntryOf(yielded[i]).name = <<"B", ".", "P", "Y">>
        /\ Len(EntryOf(yielded[i]).dir) >= 2
        /\ BuildName \in exclude_dirs

\* C4: when the scan is over, every regular file under root whose extension is,
\* case ignored, in the allow-list and whose segments from root down to the
\* file hold no excluded name has been yielded, wherever root lies.
C4_EveryAllowedFileUnderRootIsYielded ==
    pending = {} =>
        \A e \in fs :
            ( /\ ~e.isDir
              /\ \E x \in extensions : EqualIgnoringCase(Suffix(e.name), x)
              /\ \A k \in 1..Len(e.dir) : e.dir[k] \notin exclude_dirs
              /\ e.name \notin exclude_dirs )
            => \E i \in 1..Len(yielded) : yielded[i] = Parts(root, e)

(***************************************************************************)
(* Inputs of the classifier: sizes and line counts around the thresholds   *)
(***************************************************************************)

MaxPaths == 1
SmallMinBytes == 20
SmallMinLoc == 2

Repeat(c, n) == [i \in 1..n |-> c]

RECURSIVE Times(_, _)
Times(line, n) == IF n = 0 THEN <<>> ELSE line \o Times(line, n - 1)

\* A line of code and a comment line, each of w bytes with its line break.
CodeLine(w) == Repeat("x", w - 1) \o <<"\n">>
CommentLine(w) == <<"#">> \o Repeat("x", w - 2) \o <<"\n">>

\* nm comment lines, then nc lines of code, each of w bytes.
Text(nc, nm, w) == Times(CommentLine(w), nm) \o Times(CodeLine(w), nc)

\* A content with the given characters, declaring one function f.
ContentOf(text) ==
    [text |-> text,
     parse |-> [ok |-> TRUE,
                nodes |-> <<[kind |-> "FunctionDef", name |-> "f", parent |-> 0]>>],
     decls |-> <<[form |-> "function", name |-> "f"]>>]

\* Texts at, just under and well under the thresholds mb and ml: ml or ml - 1 or
\* 3 lines of code, up to two comment lines, lines of mb / ml or one byte less.
ThresholdTexts(mb, ml) ==
    {Text(nc, nm, w) :
        nc \in {3, ml - 1, ml}, nm \in 0..2, w \in {(mb \div ml) - 1, mb \div ml}}

ThresholdNames ==
    { <<"a">> \o PyExt, <<"B", ".", "P", "Y">>, <<"c", ".", "k", "t">>,
      <<"d", ".", "t", "x", "t">> }

\* A regular, readable file.
RegularFile(name, text) ==
    [path |-> [dir |-> <<SrcName>>, name |-> name], is_file |-> TRUE,
     stat_ok |-> TRUE, readable |-> TRUE, raises |-> {},
     content |-> ContentOf(text)]

\* Paths that name a regular file of every name and text, and a.py, large enough,
\* as something that is no file, that cannot be stat'ed, or that cannot be read
\* as UTF-8.
ThresholdPaths(mb, ml) ==
    {RegularFile(n, t) : n \in ThresholdNames, t \in ThresholdTexts(mb, ml)}
    \cup {[RegularFile(<<"a">> \o PyExt, Text(ml, 0, mb \div ml))
              EXCEPT !.is_file = f[1], !.stat_ok = f[2], !.readable = f[3]] :
            f \in {<<FALSE, FALSE, FALSE>>, <<TRUE, FALSE, FALSE>>,
                   <<TRUE, TRUE, FALSE>>}}

\* The extensions argument of the classifier: absent, or a set of its own.
ClassifierExtensionArgs == { {}, {PyExt, <<".", "k", "t">>} }

\* One path names one file.
Consistent(ps) ==
    \A i, j \in 1..Len(ps) : ps[i].path = ps[j].path => ps[i] = ps[j]

InitThresholds ==
    \E t \in {<<DefaultMinBytes, DefaultMinLoc>>, <<SmallMinBytes, SmallMinLoc>>},
       x \in ClassifierExtensionArgs :
        \E ps \in SeqsUpTo(ThresholdPaths(t[1], t[2]), MaxPaths) :
            /\ Consistent(ps)
            /\ ClassifyStart(ps, t[1], t[2], x)
            /\ fs = {}
            /\ ScannerIdle
            /\ CheckerIdle
            /\ OtherIdle

SpecThresholds == InitThresholds /\ [][Classify]_vars

\* The number of lines of code of a text, read off the characters: a line of
\* code starts where a character that is no white space follows only white
\* space since the last line break, unless a comment marker starts there.
LineBreaks == {"\n", "\r"}

StartsLine(text, i) ==
    /\ text[i] \notin Whitespace
    /\ \A j \in 1..(i - 1) :
          text[j] \in Whitespace \/ \E k \in (j + 1)..(i - 1) : text[k] \in LineBreaks

FollowedBy(text, i, c) == i + 1 <= Len(text) /\ text[i + 1] = c

StartsComment(text, i) ==
    \/ text[i] = "#"
    \/ text[i] = "*"
    \/ text[i] = "/" /\ (FollowedBy(text, i, "/") \/ FollowedBy(text, i, "*"))
    \/ text[i] = "-" /\ FollowedBy(text, i, "-")

CodeLineStarts(text) ==
    {i \in 1..Len(text) : StartsLine(text, i) /\ ~StartsComment(text, i)}

\* The conditions of inclusion.
Accepted(p) ==
    /\ Lower(Suffix(p.path.name)) \in cl_extensions
    /\ Len(p.content.text) >= min_bytes
    /\ p.is_file /\ p.stat_ok /\ p.readable
    /\ Cardinality(CodeLineStarts(p.content.text)) >= min_loc

HasRecord(p) == \E i \in 1..Len(metas) : metas[i].path = p.path

SupportedLanguages ==
    {"Python", "JavaScript", "TypeScript", "Java", "C++", "C#", "Go", "Ruby",
     "PHP", "Rust"}

\* C7: every record has a supported language and at least min_loc lines of
\* code, whatever the thresholds and the configured extensions.
C7_RecordsHaveSupportedLanguageAndEnoughLines ==
    \A i \in 1..Len(metas) :
        /\ metas[i].language \in SupportedLanguages
        /\ metas[i].lines_of_code >= min_loc
        /\ metas[i].lines_of_code >= 0

(***************************************************************************)
(* Inputs of the classifier: every short text                              *)
(***************************************************************************)

MaxTextLen == 4

TextAlphabet == {" ", "#", "/", "*", "-", "x", "\n", "\r"}

InitCount ==
    \E text \in SeqsUpTo(TextAlphabet, MaxTextLen) :
        /\ ClassifyStart(<<RegularFile(<<"a">> \o PyExt, text)>>, 0, 0, {})
        /\ fs = {}
        /\ ScannerIdle
        /\ CheckerIdle
        /\ OtherIdle

SpecCount == InitCount /\ [][Classify]_vars

\* The text classify read for a record.
TextOf(record) ==
    (CHOOSE p \in {paths[j] : j \in 1..Len(paths)} : p.path = record.path).content.text

\* C6: lines_of_code is the number of lines that, white space trimmed, are not
\* empty and do not begin with #, //, /*, * or --; what follows the start of a
\* line of code on the same line, a comment marker included, changes nothing.
C6_LinesOfCodeCountsLinesNotStartingWithMarker ==
    \A i \in 1..Len(metas) :
        metas[i].lines_of_code = Cardinality(CodeLineStarts(TextOf(metas[i])))

\* C6 witness: a line of code with a trailing comment, then a comment line:
\* one line of code.
C6_Witness ==
    /\ Len(metas) = 1
    /\ TextOf(metas[1]) = <<"x", "#", "\n", "#">>
    /\ metas[1].lines_of_code = 1

(***************************************************************************)
(* Inputs of the classifier: every small syntax tree and declaration list  *)
(***************************************************************************)

MaxNodes == 3
MaxDecls == 2

FunctionNames == {"f", "g"}

NodeKinds == {"FunctionDef", "AsyncFunctionDef", "ClassDef"}

\* Whether node a is node i or encloses it, where parents[i] is the node that
\* encloses node i, 0 being the module; nodes are numbered in source order.
RECURSIVE IsAncestorOrSelf(_, _, _)
IsAncestorOrSelf(parents, a, i) ==
    a = i \/ (i # 0 /\ parents[i] < i /\ IsAncestorOrSelf(parents, a, parents[i]))

\* Each node opens in the module, in the node before it, or in a node that
\* encloses the node before it.
WellNested(parents) ==
    \A i \in DOMAIN parents :
        parents[i] < i /\ IsAncestorOrSelf(parents, parents[i], i - 1)

ParentMaps(k) == {parents \in [1..k -> 0..(k - 1)] : WellNested(parents)}

Tree(kinds, names, parents) ==
    [i \in DOMAIN parents |->
        [kind |-> kinds[i], name |-> names[i], parent |-> parents[i]]]

DeclForms == {"function", "arrow", "method", "func", "def", "fn", "other"}

\* A file of one line whose extension selects the language.
SyntaxFile(ext, parse, decls) ==
    [path |-> [dir |-> <<SrcName>>, name |-> <<"m">> \o ext], is_file |-> TRUE,
     stat_ok |-> TRUE, readable |-> TRUE, raises |-> {},
     content |-> [text |-> <<"x", "\n">>, parse |-> parse, decls |-> decls]]

ExtractStart(p) ==
    /\ ClassifyStart(<<p>>, 0, 0, {})
    /\ fs = {}
    /\ ScannerIdle
    /\ CheckerIdle
    /\ OtherIdle

\* A Python file with any tree of at most MaxNodes definitions, or with a syntax
\* error; a file of another language with any list of at most MaxDecls
\* declarations, which is no Python.
InitExtract ==
    \/ \E k \in 0..MaxNodes :
         \E parents \in ParentMaps(k), kinds \in [1..k -> NodeKinds],
            names \in [1..k -> FunctionNames] :
             ExtractStart(SyntaxFile(PyExt,
                 [ok |-> TRUE, nodes |-> Tree(kinds, names, parents)], <<>>))
    \/ ExtractStart(SyntaxFile(PyExt, [ok |-> FALSE, nodes |-> <<>>], <<>>))
    \/ \E x \in DefaultExtensions \ {PyExt}, k \in 0..MaxDecls :
         \E d \in [1..k -> [form : DeclForms, name : FunctionNames]] :
             ExtractStart(SyntaxFile(x, [ok |-> FALSE, nodes |-> <<>>], d))

SpecExtract == InitExtract /\ [][Classify]_vars

\* The content classify read for a record.
ContentOfRecord(record) ==
    (CHOOSE p \in {paths[j] : j \in 1..Len(paths)} : p.path = record.path).content

NoDuplicates(names) ==
    \A i, j \in 1..Len(names) : names[i] = names[j] => i = j

FirstIndex(names, n) ==
    CHOOSE k \in 1..Len(names) :
        names[k] = n /\ \A j \in 1..(k - 1) : names[j] # n

Elements(names) == {names[k] : k \in 1..Len(names)}

\* C8: the function-name list of a record holds no name twice; it holds the
\* names of the concatenated results of the rules, each once, in the order in
\* which they are first seen there.
C8_FunctionNamesHoldEachNameOnceAtFirstPosition ==
    \A i \in 1..Len(metas) :
        LET raw == RawNames(ContentOfRecord(metas[i]), metas[i].language)
            names == metas[i].func_names
        IN  /\ NoDuplicates(names)
            /\ Elements(names) = Elements(raw)
            /\ \A a, b \in 1..Len(names) :
                  a < b => FirstIndex(raw, names[a]) < FirstIndex(raw, names[b])

\* C8 witness: a JavaScript file in which the function rule and the arrow rule
\* both yield f; the list is f alone.
C8_Witness ==
    \E i \in 1..Len(metas) :
        /\ metas[i].language = "JavaScript"
        /\ \E d1, d2 \in Elements(ContentOfRecord(metas[i]).decls) :
              /\ d1.form = "function" /\ d2.form = "arrow"
              /\ d1.name = "f" /\ d2.name = "f"
        /\ metas[i].func_names = <<"f">>

\* The places, in source order, where a file defines a function called n: the
\* function definitions of a Python tree, the declarations one of the rules of
\* the language matches.
DefinitionsOf(c, language, n) ==
    IF language = "Python"
    THEN {k \in 1..Len(c.parse.nodes) :
            /\ c.parse.nodes[k].kind \in {"FunctionDef", "AsyncFunctionDef"}
            /\ c.parse.nodes[k].name = n}
    ELSE {k \in 1..Len(c.decls) :
            /\ \E r \in 1..Len(Rules(language)) : c.decls[k].form \in Rules(language)[r]
            /\ c.decls[k].name = n}

FirstDefinition(c, language, n) ==
    CHOOSE k \in DefinitionsOf(c, language, n) :
        \A j \in DefinitionsOf(c, language, n) : k <= j

\* C9: the function-name list is in the order of first definition in the
\* source text.
C9_FunctionNamesInSourceOrder ==
    \A i \in 1..Len(metas) :
        LET c == ContentOfRecord(metas[i])
            names == metas[i].func_names
        IN  \A a, b \in 1..Len(names) :
                a < b => FirstDefinition(c, metas[i].language, names[a])
                            < FirstDefinition(c, metas[i].language, names[b])

\* C10: for a Python file that parses, the function-name list holds the name of
\* every function definition of the tree, nested ones and async ones included.
C10_EveryPythonFunctionDefinitionIsListed ==
    \A i \in 1..Len(metas) :
        LET c == ContentOfRecord(metas[i])
        IN  (metas[i].language = "Python" /\ c.parse.ok) =>
                \A k \in 1..Len(c.parse.nodes) :
                    c.parse.nodes[k].kind \in {"FunctionDef", "AsyncFunctionDef"}
                    => c.parse.nodes[k].name \in Elements(metas[i].func_names)

(***************************************************************************)
(* Inputs of the classifier: batches with paths that fail                  *)
(***************************************************************************)

MaxBatch == 2

\* A file of the given name, built like SyntaxFile, with what fails on it.
FaultFile(stem, ext, parse, isFile, statOk, readable, raises) ==
    [SyntaxFile(ext, parse, <<[form |-> "function", name |-> "f"]>>)
        EXCEPT !.path.name = <<stem>> \o ext, !.is_file = isFile,
               !.stat_ok = statOk, !.readable = readable, !.raises = raises]

Parsed == [ok |-> TRUE,
           nodes |-> <<[kind |-> "FunctionDef", name |-> "f", parent |-> 0]>>]
Malformed == [ok |-> FALSE, nodes |-> <<>>]
JsExt == <<".", "j", "s">>

\* A good Python file and a good JavaScript file; a Python file with a syntax
\* error; a malformed Python file on which the parser runs out of memory; a path
\* that has disappeared; a path in a directory that may not be searched; a file
\* that cannot be stat'ed after is_file answered; a file that cannot be decoded.
FaultPaths ==
    { FaultFile("a", PyExt, Parsed, TRUE, TRUE, TRUE, {}),
      FaultFile("j", JsExt, Malformed, TRUE, TRUE, TRUE, {}),
      FaultFile("b", PyExt, Malformed, TRUE, TRUE, TRUE, {}),
      FaultFile("c", PyExt, Malformed, TRUE, TRUE, TRUE, {"parse"}),
      FaultFile("d", PyExt, Parsed, FALSE, FALSE, FALSE, {}),
      FaultFile("e", PyExt, Parsed, TRUE, TRUE, TRUE, {"is_file"}),
      FaultFile("g", PyExt, Parsed, TRUE, FALSE, FALSE, {}),
      FaultFile("h", PyExt, Parsed, TRUE, TRUE, FALSE, {}) }

InitFaults ==
    \E k \in 0..MaxBatch :
        \E ps \in [1..k -> FaultPaths] :
            /\ ClassifyStart(ps, 0, 0, {})
            /\ fs = {}
            /\ ScannerIdle
            /\ CheckerIdle
            /\ OtherIdle

SpecFaults == InitFaults /\ [][Classify]_vars

\* The path is a file that passes the inclusion filter of classify.
Included(p) == Accepted(p) /\ "is_file" \notin p.raises

\* A Python file whose content ast.parse does not turn into a tree.
Unparsable(p) ==
    /\ Lower(Suffix(p.path.name)) = PyExt
    /\ ~p.content.parse.ok

\* classify was left by an exception raised while the function names of the
\* current path were extracted.
ParseFailurePropagated == cl_pc = "raised" /\ <<"read", cidx>> \in io_log

\* C11: every Python file that passed the inclusion filter and whose content
\* cannot be parsed has, once classify has dealt with it, its record with the
\* language Python, its lines of code and an empty function-name list; and the
\* parse failure never leaves classify as an exception.
C11_UnparsablePythonFileKeepsItsRecord ==
    /\ ~ParseFailurePropagated
    /\ \A j \in 1..Len(paths) :
          (j < cidx /\ Included(paths[j]) /\ Unparsable(paths[j])) =>
              \E i \in 1..Len(metas) :
                  /\ metas[i].path = paths[j].path
                  /\ metas[i].language = "Python"
                  /\ metas[i].lines_of_code = CountCodeLines(paths[j].content.text)
                  /\ metas[i].func_names = <<>>

\* The paths of the batch that pass the inclusion filter, in input order.
IncludedPaths ==
    LET kept == SelectSeq(paths, Included)
    IN  [k \in 1..Len(kept) |-> kept[k].path]

\* C12: classify never raises, whatever path of the batch has disappeared,
\* cannot be stat'ed, read or decoded; and when it has returned, the records
\* are those of the paths that pass the inclusion filter, one each, in input
\* order.
C12_OneRecordPerAcceptedPathInOrder ==
    /\ cl_pc # "raised"
    /\ cl_pc = "done" => [k \in 1..Len(metas) |-> metas[k].path] = IncludedPaths

(***************************************************************************)
(* Inputs of the checker: batches of whole records                         *)
(***************************************************************************)

MaxRecords == 2

\* Source files a.py and b.py, and one called *.py, whose base makes the pattern
\* of the three globs "***".
FrameStems == { <<"a">>, <<"b">>, <<"*">> }

\* A record as classify makes it.
FileRecord(stem, funcs) ==
    [path |-> [dir |-> <<SrcName>>, name |-> stem \o PyExt],
     language |-> "Python", lines_of_code |-> DefaultMinLoc, func_names |-> funcs]

FrameRecords == {FileRecord(s, f) : s \in FrameStems, f \in {<<>>, <<"f">>}}

\* The tests that may lie next to the sources.
FrameTests ==
    { SourceEntry(<<SrcName>>, <<"t", "e", "s", "t", "_">> \o s \o PyExt) :
        s \in {<<"a">>, <<"b">>} }

InitFrame ==
    \E k \in 0..MaxRecords, tests \in SUBSET FrameTests :
        \E records \in [1..k -> FrameRecords] :
            /\ fs = FileSystem(tests
                        \cup {SourceEntry(<<SrcName>>, s \o PyExt) : s \in FrameStems})
            /\ AnnotateStart(TestsName, records)
            /\ ScannerIdle
            /\ ClassifierIdle
            /\ OtherIdle

SpecFrame == InitFrame /\ [][Annotate]_vars

\* The record is the input record with needs_test set and nothing else changed.
OnlyFlagAdded(out, in) ==
    \E flag \in BOOLEAN : out = [needs_test |-> flag] @@ in

\* C13: annotate returns, and what it returns has the cardinality and the order
\* of its input: the i-th record returned is the i-th input record with
\* needs_test set, one record being done per turn of the loop, and every other
\* field unchanged; no record is added, dropped or duplicated.
C13_AnnotateKeepsRecordsAndOrder ==
    /\ pc # "raised"
    /\ pc # "idle" =>
          /\ Len(updated) = idx - 1
          /\ \A i \in 1..Len(updated) : OnlyFlagAdded(updated[i], file_metas[i])
    /\ pc = "done" => Len(updated) = Len(file_metas)

\* The frame of annotate whenever its globs raise nothing.
FrameWhenNothingRaised == (pc = "raised") \/ C13_AnnotateKeepsRecordsAndOrder

(***************************************************************************)
(* Inputs of the generator: annotated records of several languages         *)
(***************************************************************************)

MaxResults == 2

\* The languages of the records and the extensions they come from.
StubLanguages ==
    { <<"Python", PyExt>>, <<"JavaScript", <<".", "j", "s">>>>,
      <<"TypeScript", <<".", "t", "s">>>>, <<"Go", <<".", "g", "o">>>> }

StubFunctionLists == { <<>>, <<"f">>, <<"f", "g">> }

\* A record as annotate returns it.
AnnotatedRecord(stem, l, funcs, flag) ==
    [path |-> [dir |-> <<SrcName>>, name |-> stem \o l[2]], language |-> l[1],
     lines_of_code |-> DefaultMinLoc, func_names |-> funcs, needs_test |-> flag]

AnnotatedRecords ==
    {AnnotatedRecord(<<"a">>, l, f, t) :
        l \in StubLanguages, f \in StubFunctionLists, t \in BOOLEAN}

\* annotate has returned `results`, whose records it changed in place.
AnnotateDone(testDir, results) ==
    /\ test_dir_name = testDir
    /\ file_metas = results
    /\ updated = results
    /\ idx = Len(results) + 1
    /\ test_found = FALSE
    /\ pc = "done"

\* Step 5 of main begins.
GenerateStart ==
    /\ contents = {}
    /\ to_generate = <<>>
    /\ gidx = 1
    /\ created = <<>>
    /\ gen_pc = "select"

InitStubs ==
    \E k \in 0..MaxResults :
        \E results \in [1..k -> AnnotatedRecords] :
            /\ \A i, j \in 1..k :
                  results[i].path = results[j].path => results[i] = results[j]
            /\ fs = FileSystem({SourceEntry(results[i].path.dir, results[i].path.name) :
                                  i \in 1..k})
            /\ AnnotateDone(TestsName, results)
            /\ GenerateStart
            /\ ScannerIdle
            /\ ClassifierIdle
            /\ CoverageIdle /\ LauncherIdle /\ MainIdle

SpecStubs == InitStubs /\ [][Generate]_vars

\* The functions for which a text holds a test skeleton, in the order of the
\* text: the lines `def test_<fn>():` and `  it('should test <fn>', ...`.
SkeletonNames(text) ==
    LET lines == SplitLines(text)
        py == <<"d", "e", "f", " ", "t", "e", "s", "t", "_">>
        js == <<" ", " ", "i", "t", "(", "'", "s", "h", "o", "u", "l", "d",
            " ", "t", "e", "s", "t", " ">>
        IsSkeleton(line) ==
            \/ StartsWith(line, py) /\ Len(line) > Len(py)
            \/ StartsWith(line, js) /\ Len(line) > Len(js)
        NameIn(line) ==
            IF StartsWith(line, py) THEN line[Len(py) + 1] ELSE line[Len(js) + 1]
        found == SelectSeq(lines, IsSkeleton)
    IN  [k \in 1..Len(found) |-> NameIn(found[k])]

\* The file at `path` has been written and holds `text`.
Holds(path, text) ==
    \E w \in contents : w.path = path /\ w.content.text = text

\* C14: when step 5 of main is over, every record with needs_test has its stub
\* file, which lists one test skeleton per entry of its function-name list, in
\* the order of the list, whatever its language; and no stub was written but
\* those: one per record with needs_test, none for a record without.
C14_StubListsOneSkeletonPerFunction ==
    gen_pc = "done" =>
        /\ \A i \in 1..Len(updated) :
              updated[i].needs_test =>
                  /\ StubEntry(updated[i]) \in fs
                  /\ \E w \in contents :
                        /\ w.path = EntryPath(StubEntry(updated[i]))
                        /\ SkeletonNames(w.content.text) = updated[i].func_names
        /\ Len(created) = Cardinality({i \in 1..Len(updated) : updated[i].needs_test})
        /\ \A j \in 1..Len(created) :
              \E i \in 1..Len(updated) :
                  /\ updated[i].needs_test
                  /\ created[j] = EntryPath(StubEntry(updated[i]))

\* The same for the records of the two languages that have a template.
StubsOfTemplatedLanguages ==
    gen_pc = "done" =>
        \A i \in 1..Len(updated) :
            (updated[i].needs_test /\ updated[i].language \in LangTemplates) =>
                \E w \in contents :
                    /\ w.path = EntryPath(StubEntry(updated[i]))
                    /\ SkeletonNames(w.content.text) = updated[i].func_names

(***************************************************************************)
(* find_source_dir (coverage_runner.py), on the tree under the root        *)
(***************************************************************************)

\* len(list(d.rglob("*.py")))
CountPy(files, dir) == Cardinality(RGlob(files, dir, <<"*", ".", "p", "y">>))

\* The directories find_source_dir has counted so far.
Counted == {counts[k].dir : k \in 1..Len(counts)}

\* counts[root] = len(list(root.rglob("*.py")))
CountRoot ==
    /\ cov_pc = "root"
    /\ counts' = <<[dir |-> <<>>, n |-> CountPy(fs, <<>>)]>>
    /\ cov_pc' = "dirs"
    /\ UNCHANGED <<fs, contents, source_dir, scannerVars, classifierVars,
                   checkerVars, generatorVars, launcherVars, mainVars>>

\* for d in root.rglob("*"): if d.is_dir(): counts[d] = ...
\* The walk produces a directory after the directory it lies in; the order of
\* the entries of one directory is the operating system's.
CountDirectory ==
    /\ cov_pc = "dirs"
    /\ \E e \in fs :
          /\ e.isDir
          /\ EntryPath(e) \notin Counted
          /\ e.dir \in Counted
          /\ counts' = Append(counts,
                              [dir |-> EntryPath(e), n |-> CountPy(fs, EntryPath(e))])
    /\ UNCHANGED <<fs, contents, source_dir, cov_pc, scannerVars, classifierVars,
                   checkerVars, generatorVars, launcherVars, mainVars>>

\* max(counts, key=...): the first key, in the order of insertion, whose count
\* no other exceeds.
Best(cs) ==
    cs[CHOOSE k \in 1..Len(cs) :
          /\ \A j \in 1..Len(cs) : cs[j].n <= cs[k].n
          /\ \A j \in 1..(k - 1) : cs[j].n < cs[k].n].dir

\* return "." if rel == Path() else str(rel)
PickBest ==
    /\ cov_pc = "dirs"
    /\ \A e \in fs : e.isDir => EntryPath(e) \in Counted
    /\ source_dir' = IF Best(counts) = <<>> THEN <<".">> ELSE Join(<<"/">>,
        Best(counts))
    /\ cov_pc' = "done"
    /\ UNCHANGED <<fs, contents, counts, scannerVars, classifierVars,
                   checkerVars, generatorVars, launcherVars, mainVars>>

FindSourceDir == CountRoot \/ CountDirectory \/ PickBest

MaxFiles == 3

\* Files a.py, b.py and c.txt in any directory, and a directory called d.py.
SourcePool ==
    [dir : Dirs, name : {<<"a", ".", "p", "y">>, <<"b", ".", "p", "y">>, <<"c",
        ".", "t", "x", "t">>}, isDir : {FALSE}]
    \cup [dir : Dirs, name : {<<"d", ".", "p", "y">>}, isDir : {TRUE}]

InitSourceDir ==
    \E leaves \in SubsetsUpTo(SourcePool, MaxFiles) :
        /\ fs = FileSystem(leaves)
        /\ counts = <<>>
        /\ source_dir = <<>>
        /\ cov_pc = "root"
        /\ ScannerIdle
        /\ ClassifierIdle
        /\ CheckerIdle
        /\ GeneratorIdle /\ LauncherIdle /\ MainIdle

SpecSourceDir == InitSourceDir /\ [][FindSourceDir]_vars

\* The directories of the tree, the root included.
Directories == {<<>>} \cup {EntryPath(e) : e \in {x \in fs : x.isDir}}

\* The .py files a directory holds.
PyFilesIn(dir) ==
    {e \in fs : ~e.isDir /\ e.dir = dir /\ Suffix(e.name) = PyExt}

\* What find_source_dir returns for a directory.
RelativeName(dir) == IF dir = <<>> THEN <<".">> ELSE Join(<<"/">>, dir)

\* C15: find_source_dir returns the relative path of a directory that holds the
\* largest number of .py files, `.` standing for the root only; so that where
\* one subdirectory holds all the .py files, that subdirectory is returned.
C15_SourceDirHoldsMostPythonFiles ==
    cov_pc = "done" =>
        \E d \in Directories :
            /\ source_dir = RelativeName(d)
            /\ \A other \in Directories :
                  Cardinality(PyFilesIn(other)) <= Cardinality(PyFilesIn(d))

\* What the code does return: the root, whatever the tree.
AlwaysTheRoot == cov_pc = "done" => source_dir = <<".">>

(***************************************************************************)
(* VSCodeLauncher (vscode_integration.py)                                  *)
(*                                                                         *)
(* A path of the argument carries what the system answers for it: `stat`,  *)
(* what os.stat says ("exists", "absent", or "denied" when a directory on  *)
(* the way may not be searched), and `run`, what subprocess.run does with  *)
(* the command: "started" (exit status 0), "failed" (another exit status,  *)
(* CalledProcessError), "missing" (no such executable, FileNotFoundError)  *)
(* or "not_executable" (PermissionError).                                  *)
(***************************************************************************)

StatOutcomes == {"exists", "absent", "denied"}
RunOutcomes == {"started", "failed", "missing", "not_executable"}

\* What open lets through: Path.exists re-raises an OSError that does not say
\* the path is absent, and only CalledProcessError is caught around
\* subprocess.run.
OpenRaises(p) ==
    \/ p.stat = "denied"
    \/ p.stat = "exists" /\ p.run \in {"missing", "not_executable"}

\* VSCodeLauncher.open, where it returns.
Open(p) == p.stat = "exists" /\ p.run = "started"

\* One turn of the loop of open_many: result = self.open(fp, ...);
\* results.append(result).
OpenNext ==
    /\ l_pc = "open"
    /\ IF OpenRaises(file_paths[oidx])
       THEN /\ l_pc' = "raised"
            /\ UNCHANGED <<open_results, oidx>>
       ELSE /\ open_results' = Append(open_results, Open(file_paths[oidx]))
            /\ oidx' = oidx + 1
            /\ l_pc' = IF oidx + 1 > Len(file_paths) THEN "done" ELSE "open"
    /\ UNCHANGED <<fs, contents, file_paths, scannerVars, classifierVars,
                   checkerVars, generatorVars, coverageVars, mainVars>>

OpenMany == OpenNext

MaxOpen == 2

\* The call open_many(paths).
OpenManyStart(ps) ==
    /\ file_paths = ps
    /\ open_results = <<>>
    /\ oidx = 1
    /\ l_pc = IF ps = <<>> THEN "done" ELSE "open"

InitOpen ==
    \E k \in 0..MaxOpen :
        \E ps \in [1..k -> [stat : StatOutcomes, run : RunOutcomes]] :
            /\ OpenManyStart(ps)
            /\ fs = {}
            /\ ScannerIdle
            /\ ClassifierIdle
            /\ CheckerIdle
            /\ GeneratorIdle /\ CoverageIdle /\ MainIdle

SpecOpen == InitOpen /\ [][OpenMany]_vars

\* C16: open never raises; it answers True when the editor was started and
\* False in every other case, so that open_many returns one boolean per path,
\* in the order of the paths.
C16_OpenAnswersABooleanForEveryPath ==
    /\ l_pc # "raised"
    /\ \A i \in 1..Len(open_results) :
          open_results[i] =
              (file_paths[i].stat = "exists" /\ file_paths[i].run = "started")
    /\ l_pc = "done" => Len(open_results) = Len(file_paths)

\* The same whenever nothing was raised.
OpenResultsWhenNothingRaised ==
    l_pc = "raised" \/ C16_OpenAnswersABooleanForEveryPath

(***************************************************************************)
(* main (main.py): scan, classify, annotate, report, create_stubs, and the *)
(* same once more on the tree the first run has left                       *)
(***************************************************************************)

\* What the file at `path` holds.
ContentAt(store, path) == (CHOOSE w \in store : w.path = path).content

\* A path scan has yielded, as classify meets it: relative to the root, a
\* regular file that can be read.
ScannedFile(parts) ==
    LET rel == SubSeq(parts, Len(root) + 1, Len(parts))
    IN  [path |-> [dir |-> SubSeq(rel, 1, Len(rel) - 1), name |-> rel[Len(rel)]],
         is_file |-> TRUE, stat_ok |-> TRUE, readable |-> TRUE, raises |-> {},
         content |-> ContentAt(contents, rel)]

\* all_files = list(scanner.scan()); classifier = CodeClassifier();
\* metas = classifier.classify(all_files)
MainClassify ==
    /\ main_pc = "scan"
    /\ pending = {}
    /\ paths' = [k \in 1..Len(yielded) |-> ScannedFile(yielded[k])]
    /\ min_bytes' = DefaultMinBytes
    /\ min_loc' = DefaultMinLoc
    /\ cl_extensions' = ClassifierDefaultExtensions
    /\ metas' = <<>>
    /\ cidx' = 1
    /\ content' = NoContent
    /\ loc' = 0
    /\ io_log' = {}
    /\ cl_pc' = IF yielded = <<>> THEN "done" ELSE "is_file"
    /\ main_pc' = "classify"
    /\ UNCHANGED <<fs, contents, run, scannerVars, checkerVars, generatorVars,
                   coverageVars, launcherVars>>

\* checker = TestChecker(project_root=root_dir, test_dir_name=args.test_dir);
\* results = checker.annotate(metas)
MainAnnotate ==
    /\ main_pc = "classify"
    /\ cl_pc = "done"
    /\ file_metas' = metas
    /\ updated' = <<>>
    /\ idx' = 1
    /\ test_found' = FALSE
    /\ pc' = IF metas = <<>> THEN "done" ELSE "same_dir"
    /\ main_pc' = "annotate"
    /\ UNCHANGED <<fs, contents, run, test_dir_name, scannerVars, classifierVars,
                   generatorVars, coverageVars, launcherVars>>

\* report_path = root_dir / "code_checker_report.csv"
ReportEntry ==
    [dir |-> <<>>, name |-> <<"c", "o", "d", "e", "_", "c", "h", "e", "c", "k",
        "e", "r", "_", "r", "e", "p", "o", "r", "t", ".", "c", "s", "v">>,
        isDir |-> FALSE]

\* reporter.save(results), and on to step 5.
MainReport ==
    /\ main_pc = "annotate"
    /\ pc = "done"
    /\ fs' = fs \cup {ReportEntry}
    /\ gen_pc' = "select"
    /\ main_pc' = "generate"
    /\ UNCHANGED <<contents, run, to_generate, gidx, created, scannerVars,
                   classifierVars, checkerVars, coverageVars, launcherVars>>

\* main has returned and is run again, with the same arguments.
MainAgain ==
    /\ main_pc = "generate"
    /\ gen_pc = "done"
    /\ run = 1
    /\ run' = 2
    /\ pending' = fs
    /\ yielded' = <<>>
    /\ main_pc' = "scan"
    /\ UNCHANGED <<fs, contents, root, extensions, exclude_dirs, classifierVars,
                   checkerVars, generatorVars, coverageVars, launcherVars>>

\* The second run has returned.
MainEnd ==
    /\ main_pc = "generate"
    /\ gen_pc = "done"
    /\ run = 2
    /\ main_pc' = "finished"
    /\ UNCHANGED <<fs, contents, run, scannerVars, classifierVars, checkerVars,
                   generatorVars, coverageVars, launcherVars>>

Main ==
    \/ ScanStep
    \/ MainClassify
    \/ Classify
    \/ MainAnnotate
    \/ Annotate
    \/ MainReport
    \/ Generate
    \/ MainAgain
    \/ MainEnd

MaxSources == 1

\* Bases of source files: plain, and two that hold a character class.
PipelineStems == { <<"a">>, <<"[", "a", "]">>, <<"[", "a", "]", "b">> }

PipelineLanguages ==
    { <<"Python", PyExt>>, <<"JavaScript", <<".", "j", "s">>>>, <<"Go", <<".",
        "g", "o">>>> }

PipelineFunctionLists == { <<"f", "g">>, <<"f", "g", "h", "k">> }

\* A source file of ten lines of ten bytes that declares the given functions.
SourceContent(language, funcs) ==
    [text |-> Text(DefaultMinLoc, 0, DefaultMinBytes \div DefaultMinLoc),
     parse |-> IF language = "Python"
               THEN [ok |-> TRUE,
                     nodes |-> [k \in 1..Len(funcs) |->
                                   [kind |-> "FunctionDef", name |-> funcs[k],
                                    parent |-> 0]]]
               ELSE [ok |-> FALSE, nodes |-> <<>>],
     decls |-> IF language = "Python" THEN <<>>
               ELSE [k \in 1..Len(funcs) |->
                        [form |-> IF language = "Go" THEN "func" ELSE "function",
                         name |-> funcs[k]]]]

PipelineSources ==
    {[entry |-> SourceEntry(<<SrcName>>, s \o l[2]),
      content |-> SourceContent(l[1], f)] :
        s \in PipelineStems, l \in PipelineLanguages, f \in PipelineFunctionLists}

\* A test of a.py that is there before the first run, too short for a record.
OldTest ==
    [entry |-> SourceEntry(<<SrcName>>, <<"t", "e", "s", "t", "_", "a", ".",
        "p", "y">>),
     content |-> [text |-> Text(1, 0, 10), parse |-> [ok |-> TRUE, nodes |-> <<>>],
                  decls |-> <<>>]]

InitPipeline ==
    \E sources \in SubsetsUpTo(PipelineSources, MaxSources),
       tests \in SUBSET {OldTest} :
        LET files == sources \cup tests
        IN  /\ \A x, y \in files : x.entry = y.entry => x = y
            /\ fs = FileSystem({x.entry : x \in files})
            /\ contents = {[path |-> EntryPath(x.entry), content |-> x.content] :
                             x \in files}
            /\ ScanStart(FileSystem({x.entry : x \in files}),
                         <<Slash, HomeName, ProjName>>, {}, {})
            /\ ClassifierIdle
            /\ CheckerIdle
            /\ to_generate = <<>> /\ gidx = 1 /\ created = <<>> /\ gen_pc = "idle"
            /\ CoverageIdle
            /\ LauncherIdle
            /\ main_pc = "scan"
            /\ run = 1

SpecPipeline == InitPipeline /\ [][Main]_vars

\* The second run has annotated its records.
SecondRunAnnotated == run = 2 /\ main_pc \in {"generate", "finished"}

\* C17: in the run of main that follows a completed run on the same tree, every
\* record, those of the stubs of the first run included, gets needs_test =
\* false, and no stub is created.
C17_SecondRunNeedsNoTestAndCreatesNoStub ==
    /\ SecondRunAnnotated =>
          \A i \in 1..Len(updated) : ~updated[i].needs_test
    /\ (SecondRunAnnotated /\ gen_pc \in {"stub", "done", "raised"}) =>
          /\ to_generate = <<>>
          /\ created = <<>>

\* The same for trees in which no file name holds a glob metacharacter.
PlainNames ==
    \A e \in fs : \A k \in 1..Len(e.name) : e.name[k] \notin {"[", "]", "*", "?"}

ConvergesOnPlainNames == PlainNames => C17_SecondRunNeedsNoTestAndCreatesNoStub

\* The second run meets the record of a stub the first run wrote.
SecondRunMeetsStubRecord ==
    /\ SecondRunAnnotated
    /\ \E i \in 1..Len(updated) : updated[i].path.dir[1] = test_dir_name

====
